---- MODULE Spec2Model ----
(***************************************************************************)
(* Model of the scan orchestrator of green-ai-agent (src/core/scanner.py)  *)
(* together with the parts of the detectors, the analyzer, the rule        *)
(* repository, the configuration and the trackers that Scanner.scan uses.  *)
(*                                                                         *)
(* One behaviour is one call of Scanner.scan(path, progress_callback).     *)
(* The file system, the rule catalog, the configuration and the scanner's  *)
(* constructor arguments are drawn in Init.  The workers of the thread     *)
(* pool are stateless, so one worker is one atomic step (WorkerRun); the   *)
(* coordinating side consumes finished futures in any order (Merge).       *)
(* Emissions are counted in units of 1e-8 kg CO2, the floor that           *)
(* estimate_emissions applies.                                             *)
(***************************************************************************)
EXTENDS Integers, Sequences, FiniteSets, TLC

(* ---------------------------------------------------------------------- *)
(* Bounds                                                                  *)
(* ---------------------------------------------------------------------- *)

\* largest number of files below the scanned directory
MaxFiles == 3

(* ---------------------------------------------------------------------- *)
(* Values                                                                  *)
(* ---------------------------------------------------------------------- *)

\* Python's None
None == [none |-> TRUE]

Languages == {"python", "javascript"}

\* a raw violation as a detector appends it: rule id and heuristic severity
Raw(id, sev) == [id |-> id, severity |-> sev]

\* Contents of a file, abstracted to what the scan observes of it.
\*   ext        the file name's extension
\*   ignored    the relative path matches an ignore glob of the configuration
\*   readable   open()/read() as utf-8 succeeds
\*   syntax_ok  ast.parse accepts the content
\*   detErr     a detector raises an exception that is not a SyntaxError
\*   anErr      the analyzer raises (e.g. range("x") in visit_For)
\*   ast, pat   the violations of the tree detector and of the lexical pass
\*   emission   estimate_emissions of the file's metrics
PyClean ==
    [ext |-> "py", ignored |-> FALSE, readable |-> TRUE, syntax_ok |-> TRUE,
     detErr |-> FALSE, anErr |-> FALSE, ast |-> << >>, pat |-> << >>,
     emission |-> 1]

PyViolations ==
    [PyClean EXCEPT !.ast = << Raw("no_n2_algorithms", "major"),
                               Raw("unused_variables", "minor") >>,
                    !.pat = << Raw("unnecessary_computation", "critical") >>,
                    !.emission = 3]

PySyntaxError ==
    [PyClean EXCEPT !.syntax_ok = FALSE,
                    !.pat = << Raw("dead_code_block", "medium") >>]

PyUnreadable == [PyClean EXCEPT !.readable = FALSE]

PyAnalyzerError ==
    [PyClean EXCEPT !.anErr = TRUE,
                    !.ast = << Raw("no_n2_algorithms", "critical") >>,
                    !.emission = 2]

PyDetectorError == [PyClean EXCEPT !.detErr = TRUE, !.emission = 2]

JsViolations ==
    [PyClean EXCEPT !.ext = "js", !.syntax_ok = FALSE,
                    !.ast = << Raw("eval_usage", "critical"),
                               Raw("excessive_console_logging", "minor") >>,
                    !.pat = << Raw("unused_variables", "minor") >>,
                    !.emission = 2]

TxtFile == [PyClean EXCEPT !.ext = "txt", !.syntax_ok = FALSE]

PyIgnored == [PyViolations EXCEPT !.ignored = TRUE]

FileKinds ==
    << PyClean, PyViolations, PySyntaxError, PyUnreadable, PyAnalyzerError,
       PyDetectorError, JsViolations, TxtFile, PyIgnored >>

\* Candidate rule catalogs (the rules/<language>.yaml files): rule id -> severity
FullCatalog ==
    [l \in Languages |->
       IF l = "python"
       THEN [id \in {"no_n2_algorithms", "unnecessary_computation",
                     "dead_code_block", "unused_variables"} |->
               CASE id = "no_n2_algorithms" -> "high"
                 [] id = "unnecessary_computation" -> "medium"
                 [] id = "dead_code_block" -> "low"
                 [] OTHER -> "low"]
       ELSE [id \in {"eval_usage", "excessive_console_logging",
                     "unused_variables"} |->
               CASE id = "eval_usage" -> "high"
                 [] OTHER -> "low"]]

PartialCatalog ==
    [l \in Languages |->
       IF l = "python"
       THEN [id \in {"no_n2_algorithms", "unnecessary_computation",
                     "dead_code_block"} |->
               CASE id = "no_n2_algorithms" -> "medium"
                 [] OTHER -> "high"]
       ELSE [id \in {"eval_usage", "excessive_console_logging"} |-> "medium"]]

Catalogs == {FullCatalog, PartialCatalog}

\* Candidate values of the configuration's rules.disabled list
DisabledLists == { {}, {"unnecessary_computation", "excessive_console_logging"} }

\* What the child process of runtime monitoring can do, and whether the
\* profiling tracker could be constructed at all
RunOutcomes == {"ctor_error", "spawn_error", "timeout", "exit_zero", "exit_nonzero"}

(* ---------------------------------------------------------------------- *)
(* State                                                                   *)
(* ---------------------------------------------------------------------- *)

VARIABLES
    language,          \* Scanner.language
    runtime,           \* Scanner.runtime
    rules,             \* RuleRepository.rules
    disabled,          \* config 'rules.disabled'
    pathKind,          \* what `path` names: "missing", "dir" or "file"
    fs,                \* the files at or below `path`: file -> content kind
    pc,                \* position of the coordinating side inside scan
    total_files,       \* len(files)
    fstate,            \* future_to_file: file -> state of its future
    returned,          \* file -> what its worker returned or that it raised
    issues,            \* the list `issues`
    per_file_emissions,\* the dict `per_file_emissions`
    total_codebase_emissions,
    processed_count,
    progress,          \* percentages handed to progress_callback, in order
    dispatched,        \* number of executor.submit calls
    tracker,           \* scan's own tracker: "new", "started", "stopped"
    runtime_tracker,   \* calls made on the tracker of _run_with_monitoring
    child,             \* what the monitored execution did, "not run" before
    runtime_metrics,   \* dict returned by _run_with_monitoring, None before
    result,            \* the dict scan returns, None before
    outcome,           \* "running", "returned" or "raised"
    trackers,          \* what the calls of create_tracker returned, in order
    \* one call of detect_violations
    source,            \* `content`: the statements of the file, one per line
    det_language,      \* the `language` argument
    det_violations,    \* [list |-> what the detector returns], None before
    \* one EmissionAnalyzer fed with growing metrics
    est_metrics,       \* a ComplexityMetrics
    calibration_coefficient, \* EmissionAnalyzer.calibration_coefficient
    est_emissions,     \* what estimate_emissions returned for them
    \* one call of get_per_line_emissions
    dist_issues,       \* the `issues` argument
    dist_total,        \* the `total_emissions` argument
    dist_result,       \* the list it returns, None before
    \* one NoOpTracker
    now,               \* time.time()
    start_time,        \* NoOpTracker.start_time
    tracking_result,   \* what the latest stop() returned, None before
    calls,             \* the start and stop calls made so far, in order
    \* one ProfilingTracker
    codecarbon,        \* the codecarbon package: "missing", "broken", "present"
    psutil,            \* whether `import psutil` succeeds
    prof_tracker,      \* the ProfilingTracker object, None before
    prof_result,       \* what the latest stop() returned, None before
    prof_raised,       \* the call that raised, "none" while none did
    prof_calls,        \* the calls made so far, in order
    \* one ProjectManager
    projects,          \* ProjectManager.projects: id -> Project
    next_id,           \* the number of ids uuid4 has handed out
    pm_last            \* the latest call, its outcome and the registry before

inputs == << language, runtime, rules, disabled, pathKind, fs >>

scanVars == << inputs, pc, total_files, fstate, returned, issues,
               per_file_emissions, total_codebase_emissions, processed_count,
               progress, dispatched, tracker, runtime_tracker, child,
               runtime_metrics, result, outcome, trackers >>

detVars == << source, det_language, det_violations >>

estVars == << est_metrics, calibration_coefficient, est_emissions >>

distVars == << dist_issues, dist_total, dist_result >>

trkVars == << now, start_time, tracking_result, calls >>

profVars == << codecarbon, psutil, prof_tracker, prof_result, prof_raised,
              prof_calls >>

pmVars == << projects, next_id, pm_last >>

units == << detVars, estVars, distVars, trkVars, profVars, pmVars >>

vars == << scanVars, units >>

(* ---------------------------------------------------------------------- *)
(* Helpers                                                                 *)
(* ---------------------------------------------------------------------- *)

Range(s) == {s[i] : i \in 1..Len(s)}

RECURSIVE SumOver(_, _)
\* sum of g[x] over the finite set S
SumOver(S, g) ==
    IF S = {} THEN 0
    ELSE LET x == CHOOSE y \in S : TRUE IN g[x] + SumOver(S \ {x}, g)

RECURSIVE SumSeq(_)
SumSeq(s) == IF s = << >> THEN 0 ELSE Head(s) + SumSeq(Tail(s))

(* ---------------------------------------------------------------------- *)
(* Rule repository and configuration                                       *)
(* ---------------------------------------------------------------------- *)

\* RuleRepository.get_rule: the rule of that id in the language's list, or None
get_rule(lang, rule_id) ==
    IF rule_id \in DOMAIN rules[lang]
    THEN [id |-> rule_id, severity |-> rules[lang][rule_id]]
    ELSE None

\* ConfigLoader.is_rule_enabled: disabled wins, everything else is enabled
is_rule_enabled(rule_id) == rule_id \notin disabled

(* ---------------------------------------------------------------------- *)
(* Detectors                                                               *)
(* ---------------------------------------------------------------------- *)

\* PythonViolationDetector.detect_all: a SyntaxError of ast.parse is swallowed
\* and the (then empty) violation list is returned
PythonDetectAll(k) == IF k.syntax_ok THEN k.ast ELSE << >>

\* detect_violations: tree detector, then the lexical detector, both always run.
\* [exc |-> TRUE] stands for an exception other than SyntaxError.
detect_violations(k) ==
    IF k.detErr THEN [exc |-> TRUE, violations |-> << >>]
    ELSE IF k.ext = "py"
         THEN [exc |-> FALSE, violations |-> PythonDetectAll(k) \o k.pat]
         ELSE [exc |-> FALSE, violations |-> k.ast \o k.pat]

(* ---------------------------------------------------------------------- *)
(* Worker: Scanner._scan_and_analyze_file and what it calls                *)
(* ---------------------------------------------------------------------- *)

ErrorIssue(id, sev, f) ==
    [id |-> id, type |-> "error", severity |-> sev, file |-> f]

\* the issue built from a violation whose rule the catalog resolves
RuleIssue(rule, f) ==
    [id |-> rule.id, type |-> "green_violation", severity |-> rule.severity,
     file |-> f]

RECURSIVE ConvertViolationsDetectorSeverity(_, _, _)
\* the conversion loop keeping the severity the detector estimated
ConvertViolationsDetectorSeverity(lang, violations, f) ==
    IF violations = << >> THEN << >>
    ELSE LET rule == get_rule(lang, Head(violations).id)
             rest == ConvertViolationsDetectorSeverity(lang, Tail(violations), f)
         IN IF rule # None
            THEN << [RuleIssue(rule, f) EXCEPT !.severity = Head(violations).severity] >>
                 \o rest
            ELSE rest

RECURSIVE ConvertViolations(_, _, _)
\* the loop `for violation in violations` of _scan_python / _scan_javascript
ConvertViolations(lang, violations, f) ==
    IF violations = << >> THEN << >>
    ELSE LET rule == get_rule(lang, Head(violations).id)
             rest == ConvertViolations(lang, Tail(violations), f)
         IN IF rule # None THEN << RuleIssue(rule, f) >> \o rest ELSE rest

\* Scanner._scan_python
ScanPython(k, f) ==
    LET d == detect_violations(k)
    IN IF d.exc THEN << ErrorIssue("parse_error", "medium", f) >>
       ELSE ConvertViolations("python", d.violations, f)

\* the list Scanner._scan_javascript builds
JsIssues(k, f) ==
    LET d == detect_violations(k)
    IN IF d.exc THEN << ErrorIssue("parse_error", "medium", f) >>
       ELSE ConvertViolations("javascript", d.violations, f)

\* Scanner._scan_javascript: the function ends without a return statement,
\* so the caller receives None whatever list was built
ScanJavascript(k, f) == None

\* _filter_issues_by_config that never consults the configuration
FilterIssuesByConfigKeepAll(iss) == iss

\* Scanner._filter_issues_by_config
FilterIssuesByConfig(iss) ==
    LET Keep(i) == i.type # "green_violation" \/ is_rule_enabled(i.id)
    IN SelectSeq(iss, Keep)

\* Scanner._scan_file: issues.extend(None) raises TypeError, which the
\* except clause turns into a scan_error issue
ScanFile(k, f) ==
    LET found ==
          IF language = "python" THEN ScanPython(k, f)
          ELSE IF language = "javascript"
               THEN LET r == ScanJavascript(k, f)
                    IN IF r = None
                       THEN << ErrorIssue("scan_error", "low", f) >>
                       ELSE r.list
               ELSE << >>
    IN FilterIssuesByConfig(found)

\* calibration coefficients are counted in tenths
CoefficientDen == 10

\* `calibration_coefficient: float = 1.0` of EmissionAnalyzer.__init__
DefaultCoefficient == CoefficientDen

\* what CalibrationAgent.get_coefficient hands the scanner: 1.0 or 2.5
ScannerCoefficients == {10, 25}

\* EmissionAnalyzer(coefficient).estimate_emissions for a file whose estimate
\* under the coefficient 1.0 is k.emission, in tenths of an emission unit
FileEstimate(k, coefficient) == k.emission * coefficient

\* Scanner._scan_and_analyze_file: [raised |-> TRUE] is a worker that raises;
\* its analyzer is a fresh EmissionAnalyzer()
ScanAndAnalyzeFile(f) ==
    LET k == fs[f]
    IN IF ~k.readable \/ k.anErr
       THEN [raised |-> TRUE, issues |-> << >>, emissions |-> 0]
       ELSE [raised |-> FALSE, issues |-> ScanFile(k, f),
             emissions |-> FileEstimate(k, DefaultCoefficient) \div CoefficientDen]

(* ---------------------------------------------------------------------- *)
(* Analyzer: severity-weighted redistribution                              *)
(* ---------------------------------------------------------------------- *)

\* a table that weighs every severity alike
SeverityWeightFlat(sev) == 1

\* `severity_weights.get(severity, 1)`
SeverityWeight(sev) ==
    CASE sev = "high" -> 3
      [] sev = "medium" -> 2
      [] sev = "low" -> 1
      [] OTHER -> 1

\* get_per_line_emissions whose early return forgets the zero: each share is
\* the finding's fraction of the weights
get_per_line_emissionsWeightOnly(iss, total) ==
    LET W == SumSeq([i \in 1..Len(iss) |-> SeverityWeight(iss[i].severity)])
        Share(i) ==
          IF iss = << >> \/ total = 0 THEN << SeverityWeight(i.severity), W >>
          ELSE << SeverityWeight(i.severity) * total, W >>
    IN [n \in 1..Len(iss) |->
          [id |-> iss[n].id, type |-> iss[n].type,
           severity |-> iss[n].severity, file |-> iss[n].file,
           codebase_emissions |-> Share(iss[n])]]

\* EmissionAnalyzer.get_per_line_emissions; a share is the fraction
\* << numerator, denominator >> of one emission unit
get_per_line_emissions(iss, total) ==
    LET W == SumSeq([i \in 1..Len(iss) |-> SeverityWeight(iss[i].severity)])
        Share(i) ==
          IF iss = << >> \/ total = 0 THEN << 0, 1 >>
          ELSE << SeverityWeight(i.severity) * total, W >>
    IN [n \in 1..Len(iss) |->
          [id |-> iss[n].id, type |-> iss[n].type,
           severity |-> iss[n].severity, file |-> iss[n].file,
           codebase_emissions |-> Share(iss[n])]]

(* ---------------------------------------------------------------------- *)
(* File discovery                                                          *)
(* ---------------------------------------------------------------------- *)

\* Scanner._is_supported_file
IsSupportedFile(f) ==
    IF language = "python" THEN fs[f].ext = "py"
    ELSE IF language = "javascript" THEN fs[f].ext = "js"
    ELSE FALSE

\* `[path] if os.path.isfile(path) else self._get_files(path)`:
\* rglob over a path that is not a directory yields nothing
Files ==
    IF pathKind = "file" THEN DOMAIN fs
    ELSE IF pathKind = "dir" THEN {f \in DOMAIN fs : ~fs[f].ignored}
    ELSE {}

(* ---------------------------------------------------------------------- *)
(* Runtime monitoring: Scanner._run_with_monitoring                        *)
(* ---------------------------------------------------------------------- *)

\* Scanner.profile: the scans followed are those with profiling off, the
\* default of Scanner.__init__
profile == FALSE

\* tracking.create_tracker: the class of the tracker it returns
create_tracker(enable_profiling) ==
    IF enable_profiling THEN "ProfilingTracker" ELSE "NoOpTracker"

\* `runtime_tracker = create_tracker(enable_profiling=True)`
RuntimeTracker == create_tracker(TRUE)

\* the early return for a path that is not a single file
NotASingleFile ==
    [raised |-> FALSE, calls |-> << >>, created |-> << >>,
     metrics |-> [error |-> "requires a single file path"]]

\* the return after subprocess.run came back with return code rc; a non-zero
\* exit is not an exception (no check=True)
NormalReturn(rc) ==
    [raised |-> FALSE, calls |-> << "start", "stop" >>,
     created |-> << RuntimeTracker >>,
     metrics |-> [output |-> "stdout", error |-> "stderr", return_code |-> rc,
                  execution_time |-> "elapsed", emissions |-> "reading"]]

\* `except subprocess.TimeoutExpired`: stop the tracker, report the timeout
TimeoutHandler ==
    [raised |-> FALSE, calls |-> << "start", "stop" >>,
     created |-> << RuntimeTracker >>,
     metrics |-> [error |-> "timed out", execution_time |-> ">30s",
                  emissions |-> 0]]

\* `except Exception`: stop the tracker inside try/except-pass and report the
\* error.  When create_tracker itself raised, runtime_tracker is unbound and
\* the NameError of stop() is swallowed: no call reaches a tracker.
ExceptionHandler(started) ==
    [raised |-> FALSE,
     calls |-> IF started THEN << "start", "stop" >> ELSE << >>,
     created |-> IF started THEN << RuntimeTracker >> ELSE << >>,
     metrics |-> [error |-> "exception", execution_time |-> "N/A",
                  emissions |-> 0]]

\* RunWithMonitoring with a timeout handler that forgets the tracker
RunWithMonitoringNoStopOnTimeout(o) ==
    IF pathKind # "file" THEN NotASingleFile
    ELSE CASE o = "ctor_error" -> ExceptionHandler(FALSE)
           [] o = "spawn_error" -> ExceptionHandler(TRUE)
           [] o = "timeout" -> [TimeoutHandler EXCEPT !.calls = << "start" >>]
           [] o = "exit_zero" -> NormalReturn(0)
           [] OTHER -> NormalReturn(1)

\* RunWithMonitoring that handles only the timeout: a spawn failure propagates
RunWithMonitoringSpawnRaises(o) ==
    IF pathKind # "file" THEN NotASingleFile
    ELSE CASE o = "ctor_error" -> ExceptionHandler(FALSE)
           [] o = "spawn_error" ->
                [raised |-> TRUE, calls |-> << "start" >>,
                 created |-> << RuntimeTracker >>, metrics |-> None]
           [] o = "timeout" -> TimeoutHandler
           [] o = "exit_zero" -> NormalReturn(0)
           [] OTHER -> NormalReturn(1)

\* `o` is what the environment does to the monitored execution.  The result
\* names whether the call raised, the calls made on its tracker and the
\* metrics dict it returns.
RunWithMonitoring(o) ==
    IF pathKind # "file" THEN NotASingleFile
    ELSE CASE o = "ctor_error" -> ExceptionHandler(FALSE)
           [] o = "spawn_error" -> ExceptionHandler(TRUE)
           [] o = "timeout" -> TimeoutHandler
           [] o = "exit_zero" -> NormalReturn(0)
           [] OTHER -> NormalReturn(1)

(* ---------------------------------------------------------------------- *)
(* Scanner.scan                                                            *)
(* ---------------------------------------------------------------------- *)

\* the early return reporting the tracker's elapsed time as its emissions
EmptyResultElapsed ==
    [issues |-> << >>, scanning_emissions |-> 1,
     codebase_emissions |-> 0, per_file_emissions |-> << >>, total_files |-> 0]

\* the dict of the early return for an empty file list
EmptyResult ==
    [issues |-> << >>, scanning_emissions |-> 0, codebase_emissions |-> 0,
     per_file_emissions |-> << >>, total_files |-> 0]

\* the percentage scaled to 100 instead of 80
PercentageOfHundred(processed, total) == 10 + ((processed * 100) \div total)

\* `10 + int((processed_count / total_files) * 80)`
Percentage(processed, total) == 10 + ((processed * 80) \div total)

\* sorted kind indices: files of one directory are interchangeable, so one
\* representative of each multiset of contents is enough
Monotone(ix) == \A i \in DOMAIN ix : \A j \in DOMAIN ix : i <= j => ix[i] <= ix[j]

\* the parts of the program a specification does not exercise stay put
DetIdle == source = << >> /\ det_language = "python" /\ det_violations = None

EstIdle == est_metrics = None /\ calibration_coefficient = 0 /\ est_emissions = 0

DistIdle == dist_issues = << >> /\ dist_total = 0 /\ dist_result = None

TrkIdle ==
    now = 0 /\ start_time = None /\ tracking_result = None /\ calls = << >>

ProfIdle ==
    /\ codecarbon = "missing" /\ psutil = FALSE /\ prof_tracker = None
    /\ prof_result = None /\ prof_raised = "none" /\ prof_calls = << >>

PmIdle == projects = << >> /\ next_id = 0 /\ pm_last = None

ScanIdle ==
    /\ language = "python" /\ runtime = FALSE /\ rules = FullCatalog
    /\ disabled = {} /\ pathKind = "missing" /\ fs = << >>
    /\ pc = "idle" /\ total_files = 0 /\ fstate = << >> /\ returned = << >>
    /\ issues = << >> /\ per_file_emissions = << >>
    /\ total_codebase_emissions = 0 /\ processed_count = 0
    /\ progress = << >> /\ dispatched = 0 /\ tracker = "new"
    /\ runtime_tracker = << >> /\ child = "not run"
    /\ runtime_metrics = None /\ result = None /\ outcome = "running"
    /\ trackers = << >>

Init ==
    /\ language \in Languages
    /\ runtime \in BOOLEAN
    /\ rules \in Catalogs
    /\ disabled \in DisabledLists
    /\ pathKind \in {"missing", "dir", "file"}
    /\ \E n \in 0..MaxFiles :
         \E ix \in [1..n -> 1..Len(FileKinds)] :
            /\ Monotone(ix)
            /\ pathKind = "missing" => n = 0
            /\ pathKind = "file" => n = 1
            /\ fs = [i \in 1..n |-> FileKinds[ix[i]]]
    /\ pc = "start"
    /\ total_files = 0
    /\ fstate = << >>
    /\ returned = << >>
    /\ issues = << >>
    /\ per_file_emissions = << >>
    /\ total_codebase_emissions = 0
    /\ processed_count = 0
    /\ progress = << >>
    /\ dispatched = 0
    /\ tracker = "new"
    /\ runtime_tracker = << >>
    /\ child = "not run"
    /\ runtime_metrics = None
    /\ result = None
    /\ outcome = "running"
    /\ trackers = << >>
    /\ calibration_coefficient \in ScannerCoefficients
    /\ est_metrics = None /\ est_emissions = 0
    /\ DetIdle /\ DistIdle /\ TrkIdle /\ ProfIdle /\ PmIdle

\* scan up to the submission of the workers (or the early return)
Start ==
    /\ pc = "start"
    /\ total_files' = Cardinality(Files)
    /\ IF Cardinality(Files) = 0
       THEN /\ tracker' = "stopped"
            /\ result' = EmptyResult
            /\ outcome' = "returned"
            /\ pc' = "done"
            /\ UNCHANGED << fstate, progress, dispatched >>
       ELSE /\ tracker' = "started"
            /\ progress' = << 10 >>
            /\ fstate' = [f \in {g \in Files : IsSupportedFile(g)} |-> "queued"]
            /\ dispatched' = Cardinality({g \in Files : IsSupportedFile(g)})
            /\ pc' = "scanning"
            /\ UNCHANGED << result, outcome >>
    /\ trackers' = Append(trackers, create_tracker(profile))
    /\ UNCHANGED << units, returned, inputs, issues, per_file_emissions, total_codebase_emissions,
                    processed_count, runtime_tracker, child, runtime_metrics >>

\* a pool thread runs _scan_and_analyze_file(f) to completion
WorkerRun(f) ==
    /\ pc = "scanning"
    /\ f \in DOMAIN fstate
    /\ fstate[f] = "queued"
    /\ fstate' = [fstate EXCEPT ![f] =
                    IF ScanAndAnalyzeFile(f).raised THEN "failed" ELSE "ok"]
    /\ returned' = [g \in DOMAIN returned \cup {f} |->
                      IF g = f THEN ScanAndAnalyzeFile(f) ELSE returned[g]]
    /\ UNCHANGED << units, trackers, inputs, pc, total_files, issues, per_file_emissions,
                    total_codebase_emissions, processed_count, progress,
                    dispatched, tracker, runtime_tracker, child,
                    runtime_metrics, result, outcome >>

\* MergeResult keying the emission map by the last submitted file instead of
\* the file of the completed future
MergeResultLastFile(f) ==
    /\ pc = "scanning"
    /\ f \in DOMAIN fstate
    /\ fstate[f] = "ok"
    /\ LET file_result == returned[f]
           last == CHOOSE g \in DOMAIN fstate : \A h \in DOMAIN fstate : h <= g
       IN /\ issues' = issues \o file_result.issues
          /\ per_file_emissions' =
               [g \in DOMAIN per_file_emissions \cup {last} |->
                  IF g = last THEN file_result.emissions ELSE per_file_emissions[g]]
          /\ total_codebase_emissions' =
               total_codebase_emissions + file_result.emissions
    /\ processed_count' = processed_count + 1
    /\ progress' = Append(progress, Percentage(processed_count + 1, total_files))
    /\ fstate' = [fstate EXCEPT ![f] = "merged"]
    /\ UNCHANGED << units, trackers, returned, inputs, pc, total_files, dispatched, tracker,
                    runtime_tracker, child, runtime_metrics, result, outcome >>

\* MergeResult whose running total is the latest estimate instead of the sum
MergeResultLatestEstimate(f) ==
    /\ pc = "scanning"
    /\ f \in DOMAIN fstate
    /\ fstate[f] = "ok"
    /\ LET file_result == returned[f]
       IN /\ issues' = issues \o file_result.issues
          /\ per_file_emissions' =
               [g \in DOMAIN per_file_emissions \cup {f} |->
                  IF g = f THEN file_result.emissions ELSE per_file_emissions[g]]
          /\ total_codebase_emissions' = file_result.emissions
    /\ processed_count' = processed_count + 1
    /\ progress' = Append(progress, Percentage(processed_count + 1, total_files))
    /\ fstate' = [fstate EXCEPT ![f] = "merged"]
    /\ UNCHANGED << units, trackers, returned, inputs, pc, total_files, dispatched, tracker,
                    runtime_tracker, child, runtime_metrics, result, outcome >>

\* the body of `for future in as_completed(...)` for a future that returned
MergeResult(f) ==
    /\ pc = "scanning"
    /\ f \in DOMAIN fstate
    /\ fstate[f] = "ok"
    /\ LET file_result == returned[f]
       IN /\ issues' = issues \o file_result.issues
          /\ per_file_emissions' =
               [g \in DOMAIN per_file_emissions \cup {f} |->
                  IF g = f THEN file_result.emissions ELSE per_file_emissions[g]]
          /\ total_codebase_emissions' =
               total_codebase_emissions + file_result.emissions
    /\ processed_count' = processed_count + 1
    /\ progress' = Append(progress, Percentage(processed_count + 1, total_files))
    /\ fstate' = [fstate EXCEPT ![f] = "merged"]
    /\ UNCHANGED << units, trackers, returned, inputs, pc, total_files, dispatched, tracker,
                    runtime_tracker, child, runtime_metrics, result, outcome >>

\* the loop without its try/except: the worker's exception leaves scan
LogFailureCrash(f) ==
    /\ pc = "scanning"
    /\ f \in DOMAIN fstate
    /\ fstate[f] = "failed"
    /\ outcome' = "raised"
    /\ pc' = "done"
    /\ UNCHANGED << units, trackers, returned, inputs, total_files, fstate, issues, per_file_emissions,
                    total_codebase_emissions, processed_count, progress,
                    dispatched, tracker, runtime_tracker, child,
                    runtime_metrics, result >>

\* the body of the loop for a future whose worker raised: log and continue
LogFailure(f) ==
    /\ pc = "scanning"
    /\ f \in DOMAIN fstate
    /\ fstate[f] = "failed"
    /\ fstate' = [fstate EXCEPT ![f] = "logged"]
    /\ UNCHANGED << units, trackers, returned, inputs, pc, total_files, issues, per_file_emissions,
                    total_codebase_emissions, processed_count, progress,
                    dispatched, tracker, runtime_tracker, child,
                    runtime_metrics, result, outcome >>

\* after the pool is drained: progress 95 and the redistribution
Finalize ==
    /\ pc = "scanning"
    /\ \A f \in DOMAIN fstate : fstate[f] \in {"merged", "logged"}
    /\ progress' = Append(progress, 95)
    /\ issues' = get_per_line_emissions(issues, total_codebase_emissions)
    /\ pc' = "runtime"
    /\ UNCHANGED << units, trackers, returned, inputs, total_files, fstate, per_file_emissions,
                    total_codebase_emissions, processed_count, dispatched,
                    tracker, runtime_tracker, child, runtime_metrics, result,
                    outcome >>

\* the dict scan returns
Results(metrics) ==
    [issues |-> issues, scanning_emissions |-> 0,
     codebase_emissions |-> total_codebase_emissions,
     per_file_emissions |-> per_file_emissions,
     runtime_metrics |-> metrics,
     total_files |-> total_files, language |-> language]

\* the rest of scan when runtime monitoring does not apply
Finish ==
    /\ pc = "runtime"
    /\ ~(runtime /\ language = "python")
    /\ runtime_metrics' = << >>
    /\ tracker' = "stopped"
    /\ result' = Results(<< >>)
    /\ progress' = Append(progress, 100)
    /\ outcome' = "returned"
    /\ pc' = "done"
    /\ UNCHANGED << units, trackers, returned, inputs, total_files, fstate, issues, per_file_emissions,
                    total_codebase_emissions, processed_count, dispatched,
                    runtime_tracker, child >>

\* the rest of scan with runtime monitoring, the environment behaving as o
MonitorAndFinish(o) ==
    /\ pc = "runtime"
    /\ runtime /\ language = "python"
    /\ LET m == RunWithMonitoring(o)
       IN /\ runtime_tracker' = m.calls
          /\ trackers' = trackers \o m.created
          /\ child' = IF pathKind = "file" THEN o ELSE "not run"
          /\ IF m.raised
             THEN /\ outcome' = "raised"
                  /\ UNCHANGED << runtime_metrics, tracker, result, progress >>
             ELSE /\ runtime_metrics' = m.metrics
                  /\ tracker' = "stopped"
                  /\ result' = Results(m.metrics)
                  /\ progress' = Append(progress, 100)
                  /\ outcome' = "returned"
    /\ pc' = "done"
    /\ UNCHANGED << units, returned, inputs, total_files, fstate, issues, per_file_emissions,
                    total_codebase_emissions, processed_count, dispatched >>

Next ==
    \/ Start
    \/ \E f \in DOMAIN fs : WorkerRun(f)
    \/ \E f \in DOMAIN fs : MergeResult(f)
    \/ \E f \in DOMAIN fs : LogFailure(f)
    \/ Finalize
    \/ Finish
    \/ \E o \in RunOutcomes : MonitorAndFinish(o)

Spec == Init /\ [][Next]_vars

(* ---------------------------------------------------------------------- *)
(* A scan during which another thread changes the catalog or the config    *)
(* ---------------------------------------------------------------------- *)

\* RuleRepository.add_rule called while the pool is working: the rule is
\* appended to the live list that the workers' get_rule reads
AddRule(lang, id) ==
    /\ pc = "scanning"
    /\ id \in DOMAIN FullCatalog[lang]
    /\ id \notin DOMAIN rules[lang]
    /\ rules' = [rules EXCEPT ![lang] =
                   [r \in DOMAIN rules[lang] \cup {id} |->
                      IF r = id THEN FullCatalog[lang][id] ELSE rules[lang][r]]]
    /\ UNCHANGED << units, trackers, language, runtime, disabled, pathKind, fs, pc, total_files,
                    fstate, returned, issues, per_file_emissions,
                    total_codebase_emissions, processed_count, progress,
                    dispatched, tracker, runtime_tracker, child,
                    runtime_metrics, result, outcome >>

\* the configuration's rules.disabled list gains an entry while the pool is
\* working: is_rule_enabled reads the live ConfigLoader.config
DisableRule(id) ==
    /\ pc = "scanning"
    /\ id \notin disabled
    /\ disabled' = disabled \cup {id}
    /\ UNCHANGED << units, trackers, language, runtime, rules, pathKind, fs, pc, total_files,
                    fstate, returned, issues, per_file_emissions,
                    total_codebase_emissions, processed_count, progress,
                    dispatched, tracker, runtime_tracker, child,
                    runtime_metrics, result, outcome >>

NextLive ==
    \/ Next
    \/ \E lang \in Languages : \E id \in DOMAIN FullCatalog[lang] : AddRule(lang, id)
    \/ \E id \in UNION DisabledLists : DisableRule(id)

SpecLive == Init /\ [][NextLive]_vars

(* ---------------------------------------------------------------------- *)
(* Properties of Scanner.scan                                              *)
(* ---------------------------------------------------------------------- *)

\* the files handed to the pool, and those whose worker raises
Submitted == {f \in Files : IsSupportedFile(f)}

Failing == {f \in Submitted : ScanAndAnalyzeFile(f).raised}

\* a finding of the result without the share added by the redistribution
Strip(i) == [id |-> i.id, type |-> i.type, severity |-> i.severity, file |-> i.file]

\* the findings of the returned result attributed to file f, in result order
FindingsOf(f) ==
    LET Mine(i) == i.file = f
        mine == SelectSeq(result.issues, Mine)
    IN [n \in 1..Len(mine) |-> Strip(mine[n])]

Returned == pc = "done" /\ outcome = "returned"

\* C1: when the worker of some file raises, scan still returns; every file
\* whose worker returned has its findings and its emission entry in the
\* result, and a failing file has no entry in the emission map and adds
\* nothing to the codebase total.
C1_WorkerFailureIsolated ==
    (pc = "done" /\ Failing # {}) =>
        /\ outcome = "returned"
        /\ \A f \in Submitted \ Failing :
              /\ f \in DOMAIN result.per_file_emissions
              /\ result.per_file_emissions[f] = fs[f].emission
              /\ FindingsOf(f) = ScanFile(fs[f], f)
        /\ \A f \in Failing :
              /\ f \notin DOMAIN result.per_file_emissions
              /\ FindingsOf(f) = << >>
        /\ result.codebase_emissions =
              SumOver(Submitted \ Failing, [f \in DOMAIN fs |-> fs[f].emission])

\* a scan finished in which one worker raised and another returned findings
C1_Witness ==
    /\ Returned
    /\ \E f \in Failing : ~fs[f].readable
    /\ \E f \in Failing : fs[f].anErr
    /\ \E f \in Submitted \ Failing : FindingsOf(f) # << >>

\* C2: a Python file that fails to parse contributes exactly one finding,
\* the synthetic syntax_error finding, and no rule finding.
C2_SyntaxErrorFinding ==
    (Returned /\ language = "python") =>
        \A f \in Submitted \ Failing :
            (~fs[f].syntax_ok /\ ~fs[f].detErr) =>
                FindingsOf(f) = << ErrorIssue("syntax_error", "blocker", f) >>

\* C3: in a javascript scan every raw finding of the detectors whose rule the
\* catalog resolves and the configuration enables is in the result,
\* attributed to its file.
C3_JavascriptFindingsReported ==
    (Returned /\ language = "javascript") =>
        \A f \in Submitted \ Failing :
            \A v \in Range(detect_violations(fs[f]).violations) :
                (v.id \in DOMAIN rules["javascript"] /\ is_rule_enabled(v.id)) =>
                    \E i \in Range(FindingsOf(f)) :
                        i.id = v.id /\ i.type = "green_violation"

\* C4: when all N workers succeed, whatever the completion order, the result
\* has exactly N emission entries, one per submitted path, and the findings
\* carrying a file's path are the findings that file's worker produced.
C4_PerFilePartition ==
    (Returned /\ Submitted # {} /\ Failing = {}) =>
        /\ DOMAIN result.per_file_emissions = Submitted
        /\ Cardinality(DOMAIN result.per_file_emissions) = dispatched
        /\ \A f \in Submitted :
              result.per_file_emissions[f] = fs[f].emission
        /\ \A n \in 1..Len(result.issues) : result.issues[n].file \in Submitted
        /\ \A f \in Submitted : FindingsOf(f) = ScanFile(fs[f], f)
        /\ Len(result.issues) =
              SumOver(Submitted, [f \in DOMAIN fs |-> Len(ScanFile(fs[f], f))])

\* three workers succeeded, two of them with findings
C4_Witness ==
    /\ Returned
    /\ Failing = {}
    /\ Cardinality(Submitted) >= 3
    /\ \E f \in Submitted : \E g \in Submitted :
          f # g /\ FindingsOf(f) # << >> /\ FindingsOf(g) # << >>

\* the lists of the workers that have returned
ReturnedLists ==
    {ScanFile(fs[f], f) : f \in {g \in DOMAIN fstate : fstate[g] \in {"ok", "merged"}}}

\* C5 (as stated): every finding a worker returns has a rule id that the
\* active language's catalog resolves and that the configuration enables.
C5_EveryFindingResolves ==
    \A l \in ReturnedLists : \A i \in Range(l) :
        i.id \in DOMAIN rules[language] /\ is_rule_enabled(i.id)

\* C5 (amended): every rule finding (type green_violation) a worker returns
\* has a rule id that the catalog resolves and the configuration enables, and
\* no raw finding whose rule is absent or disabled survives as a rule
\* finding; the synthetic error findings are returned without a catalog rule.
C5_RuleFindingsResolve ==
    \A f \in DOMAIN fstate :
        fstate[f] \in {"ok", "merged"} =>
            LET l == ScanFile(fs[f], f)
            IN /\ \A i \in Range(l) :
                     \/ i.type = "error" /\ i.id \in {"syntax_error", "parse_error", "scan_error"}
                     \/ /\ i.type = "green_violation"
                        /\ i.id \in DOMAIN rules[language]
                        /\ i.id \notin disabled
               /\ \A v \in Range(detect_violations(fs[f]).violations) :
                     (v.id \notin DOMAIN rules[language] \/ v.id \in disabled) =>
                         \A i \in Range(l) : i.id # v.id

\* a worker returned after one raw finding was dropped for a missing rule,
\* one for a disabled rule, and one was kept
C5_Witness ==
    \E f \in DOMAIN fstate :
        /\ fstate[f] = "ok"
        /\ language = "python"
        /\ \E v \in Range(detect_violations(fs[f]).violations) :
              v.id \notin DOMAIN rules[language]
        /\ \E v \in Range(detect_violations(fs[f]).violations) :
              v.id \in DOMAIN rules[language] /\ v.id \in disabled
        /\ \E i \in Range(ScanFile(fs[f], f)) : i.type = "green_violation"

\* C6: a tracker that runtime monitoring started has been stopped when the
\* monitoring step is over, on the normal, the timeout and the error path.
C6_RuntimeTrackerStopped ==
    pc = "done" =>
        (runtime_tracker # << >> =>
            /\ Head(runtime_tracker) = "start"
            /\ runtime_tracker[Len(runtime_tracker)] = "stop")

\* the monitored child timed out and the tracker had been started
C6_Witness ==
    /\ pc = "done"
    /\ child = "timeout"
    /\ "start" \in Range(runtime_tracker)

\* C7: a timeout, a non-zero exit code or a failure to spawn the monitored
\* child does not raise out of scan; the returned result records the outcome
\* in its runtime metrics and its static findings and emissions are those of
\* the workers.
C7_MonitoringFailureCaptured ==
    (pc = "done" /\ child \in {"timeout", "exit_nonzero", "spawn_error"}) =>
        /\ outcome = "returned"
        /\ result # None
        /\ LET m == result.runtime_metrics
           IN /\ child = "timeout" => m.error = "timed out"
              /\ child = "spawn_error" => m.error = "exception"
              /\ child = "exit_nonzero" =>
                    m.return_code = 1 /\ m.output = "stdout" /\ m.error = "stderr"
        /\ DOMAIN result.per_file_emissions = Submitted \ Failing
        /\ result.codebase_emissions =
              SumOver(Submitted \ Failing, [f \in DOMAIN fs |-> fs[f].emission])
        /\ \A f \in Submitted \ Failing : FindingsOf(f) = ScanFile(fs[f], f)
        /\ Len(result.issues) = Len(issues)

\* the child failed to spawn while the scanned file had static findings
C7_Witness ==
    /\ Returned
    /\ child = "spawn_error"
    /\ result.issues # << >>
    /\ result.codebase_emissions > 0

\* C8: the percentages handed to the progress callback never decrease.
C8_ProgressMonotone ==
    \A i \in DOMAIN progress : \A j \in DOMAIN progress :
        i <= j => progress[i] <= progress[j]

\* a finished scan with two merged results and one failed worker
C8_Witness ==
    /\ Returned
    /\ processed_count >= 2
    /\ Failing # {}
    /\ Len(progress) >= 5

\* C9: scanning a root path that does not exist raises to the caller and
\* returns no result.
C9_MissingPathIsFatal ==
    (pc = "done" /\ pathKind = "missing") =>
        outcome = "raised" /\ result = None

\* C10: scanning an empty directory returns zero findings, zero scanning and
\* codebase emissions, an empty per-file map and file count 0, and no worker
\* is dispatched.
C10_EmptyDirectory ==
    (pc = "done" /\ pathKind = "dir" /\ DOMAIN fs = {}) =>
        /\ outcome = "returned"
        /\ result.issues = << >>
        /\ result.scanning_emissions = 0
        /\ result.codebase_emissions = 0
        /\ DOMAIN result.per_file_emissions = {}
        /\ result.total_files = 0
        /\ dispatched = 0
        /\ DOMAIN fstate = {}

\* the scan of an empty directory has returned
C10_Witness ==
    /\ Returned
    /\ pathKind = "dir"
    /\ DOMAIN fs = {}
    /\ tracker = "stopped"

\* C11: when files are discovered but none has the active language's
\* extension, scan returns the empty result at once: no findings, zero
\* emissions, file count 0, no worker dispatched, no later step of scan run.
C11_NoMatchingFileEmptyResult ==
    (pc = "done" /\ Files # {} /\ Submitted = {}) =>
        /\ outcome = "returned"
        /\ result.issues = << >>
        /\ result.codebase_emissions = 0
        /\ result.scanning_emissions = 0
        /\ DOMAIN result.per_file_emissions = {}
        /\ dispatched = 0
        /\ result.total_files = 0
        /\ progress = << >>
        /\ child = "not run"

\* C13: the severity of every rule finding of the result is the severity the
\* catalog records for the finding's rule id.
C13_SeverityFromCatalog ==
    Returned =>
        \A n \in 1..Len(result.issues) :
            result.issues[n].type = "green_violation" =>
                /\ result.issues[n].id \in DOMAIN rules[language]
                /\ result.issues[n].severity = rules[language][result.issues[n].id]

\* a result holds a rule finding whose detector had estimated another severity
C13_Witness ==
    /\ Returned
    /\ \E n \in 1..Len(result.issues) :
          /\ result.issues[n].type = "green_violation"
          /\ \E v \in Range(detect_violations(fs[result.issues[n].file]).violations) :
                /\ v.id = result.issues[n].id
                /\ v.severity # result.issues[n].severity

\* C12: the findings a dispatched worker returns are fixed at dispatch: no
\* step taken while the worker has not yet run (a change of the rule catalog
\* or of the configuration included) changes the list it will return.
C12_WorkerInputsFixedAtDispatch ==
    [][\A f \in DOMAIN fstate :
          (pc = "scanning" /\ fstate[f] = "queued") =>
              ScanFile(fs[f], f)' = ScanFile(fs[f], f)]_vars


(* ---------------------------------------------------------------------- *)
(* Structural detectors: loops, membership tests, accumulation             *)
(* ---------------------------------------------------------------------- *)

\* A file is a sequence of statements, one per line, each at an indentation
\* level; a statement's body is the run of deeper lines that follows it, and
\* a compound statement with no deeper line has the body `pass` on its line.
\*   "for"         for i in a:            for (;;) { }
\*   "while_true"  while True:            while (true) { }
\*   "while_one"   while 1:               while (1) { }
\*   "while_cond"  while c:               while (c) { }
\*   "if"          if c:                  if (c) { }
\*   "assign_list" n = [1]      "assign_set"  n = {1}
\*   "assign_str"  n = ""       "assign_int"  n = 0
\*   "member_test" x in n
\*   "accum"       n = n + 1    "augaccum"    n += 1
\*   "for_range"   for i in range(n):     "while_read"  while read(f):
\*   "call_open"   open(p)                "call_len"    len(p)
\* The violation lists below are the detectors' lists restricted to the ids
\* no_n2_algorithms, excessive_nesting_depth, no_infinite_loops,
\* inefficient_loop, inefficient_lookup, string_concatenation_in_loop,
\* io_in_loop and unnecessary_computation.
MaxLines == 4

WhileStatements == {"while_true", "while_one", "while_cond", "while_read"}

ForStatements == {"for", "for_range"}

LoopStatements == ForStatements \cup WhileStatements

CompoundStatements == LoopStatements \cup {"if"}

\* the statements of the files that exercise the loop rules, the lookup
\* rule and the accumulation rule
NestingStatements == {"for", "while_true", "while_one", "if"}

LookupStatements ==
    {"assign_list", "assign_set", "assign_int", "for", "while_cond",
     "member_test"}

AccumulationStatements ==
    {"assign_str", "assign_int", "for", "while_cond", "accum", "augaccum"}

CallStatements ==
    {"for", "for_range", "while_read", "if", "call_open", "call_len"}

Stmt(kind, indent) == [kind |-> kind, indent |-> indent]

\* the function the statement on a line calls, in its header when the
\* statement is a loop
CallOf(stmt) ==
    CASE stmt.kind = "for_range" -> "range"
      [] stmt.kind = "while_read" -> "read"
      [] stmt.kind = "call_open" -> "open"
      [] stmt.kind = "call_len" -> "len"
      [] OTHER -> "none"

\* `io_patterns`
io_patterns == {"open", "read", "write", "requests", "urlopen"}

\* `redundant_funcs`
redundant_funcs == {"len", "range", "re.compile", "datetime.now", "time.time"}

RECURSIVE Shapes(_)
\* the indentations of n lines: the first line is not indented and a line
\* is at most one level deeper than the line above it
Shapes(n) ==
    IF n = 1 THEN { << 0 >> }
    ELSE UNION { { Append(sh, d) : d \in 0..(sh[n - 1] + 1) } : sh \in Shapes(n - 1) }

\* only a compound statement is followed by a deeper line
WellFormed(src) ==
    \A i \in 2..Len(src) :
       src[i].indent > src[i - 1].indent => src[i - 1].kind \in CompoundStatements

\* source is a file of at most MaxLines lines written with the given statements
IsProgram(kinds) ==
    \E n \in 1..MaxLines : \E ks \in [1..n -> kinds] : \E sh \in Shapes(n) :
       /\ WellFormed([i \in 1..n |-> Stmt(ks[i], sh[i])])
       /\ source = [i \in 1..n |-> Stmt(ks[i], sh[i])]

\* the statements enclosing line i
Ancestors(src, i) ==
    { j \in 1..(i - 1) : /\ src[j].indent < src[i].indent
                         /\ \A k \in (j + 1)..i : src[k].indent > src[j].indent }

\* the statements inside the body of line i
Descendants(src, i) ==
    { j \in (i + 1)..Len(src) : \A k \in (i + 1)..j : src[k].indent > src[i].indent }

RECURSIVE Ascending(_)
Ascending(S) ==
    IF S = {} THEN << >>
    ELSE LET m == CHOOSE x \in S : \A y \in S : x <= y
         IN << m >> \o Ascending(S \ {m})

\* the statements directly in the body of line i, in source order
Children(src, i) ==
    Ascending({ j \in Descendants(src, i) : src[j].indent = src[i].indent + 1 })

\* a violation: depth is the number its message embeds, 0 when it embeds none
Violation(id, line, sev, depth) ==
    [id |-> id, line |-> line, severity |-> sev, depth |-> depth]

\* the Call nodes ast.walk(loop_node) yields, by the lines they are on.  The
\* walk starts at the loop node, whose fields hold the header as well as the
\* body; a call is one level below its statement, so calls come in the order
\* of the statements' levels and, within a level, of the lines.
WalkCalls(src, i) ==
    SelectSeq(<< i >> \o
              SortSeq(Ascending(Descendants(src, i)),
                      LAMBDA a, b : \/ src[a].indent < src[b].indent
                                    \/ src[a].indent = src[b].indent /\ a < b),
              LAMBDA j : CallOf(src[j]) # "none")

\* PythonViolationDetector._check_io_in_loop
check_io_in_loop(src, i) ==
    LET found == SelectSeq(WalkCalls(src, i),
                           LAMBDA j : CallOf(src[j]) \in io_patterns)
    IN [k \in 1..Len(found) |-> Violation("io_in_loop", found[k], "critical", 0)]

\* PythonViolationDetector._check_unnecessary_computation
check_unnecessary_computation(src, i) ==
    LET found == SelectSeq(WalkCalls(src, i),
                           LAMBDA j : CallOf(src[j]) \in redundant_funcs)
    IN [k \in 1..Len(found) |->
          Violation("unnecessary_computation", found[k], "critical", 0)]

\* ast.walk(loop_node) below the loop statement: breadth first
Walk(src, i) ==
    SortSeq(Ascending(Descendants(src, i)),
            LAMBDA a, b : \/ src[a].indent < src[b].indent
                          \/ src[a].indent = src[b].indent /\ a < b)

\* self.var_types.get(name)
TypeOf(var_types, name) ==
    IF name \in DOMAIN var_types THEN var_types[name] ELSE "unknown"

\* self.var_types[name] = t
Bind(var_types, name, t) ==
    [v \in DOMAIN var_types \cup {name} |-> IF v = name THEN t ELSE var_types[v]]

\* PythonViolationDetector._check_inefficient_lookups
check_inefficient_lookups(src, i, var_types) ==
    LET tests == SelectSeq(Walk(src, i), LAMBDA j : src[j].kind = "member_test")
        found == IF TypeOf(var_types, "n") = "efficient" THEN << >> ELSE tests
    IN [k \in 1..Len(found) |-> Violation("inefficient_lookup", found[k], "medium", 0)]

\* the state of a PythonViolationDetector
Detector(depth, in_loop, var_types, found) ==
    [current_depth |-> depth, in_loop |-> in_loop, var_types |-> var_types,
     violations |-> found]

RECURSIVE visit(_, _, _)
RECURSIVE generic_visit(_, _, _)

\* visiting the statements js one after the other
generic_visit(src, js, self) ==
    IF js = << >> THEN self
    ELSE generic_visit(src, Tail(js), visit(src, Head(js), self))

\* PythonViolationDetector.visit_For
visit_For(src, i, self) ==
    LET d == self.current_depth + 1
        nested == IF d >= 2
                  THEN << Violation("no_n2_algorithms", i,
                                    IF d >= 3 THEN "critical" ELSE "major", d) >>
                  ELSE << >>
        lookups == check_inefficient_lookups(src, i, self.var_types)
        after == generic_visit(src, Children(src, i),
                     Detector(d, TRUE, self.var_types,
                              self.violations \o nested \o lookups
                                \o check_io_in_loop(src, i)
                                \o check_unnecessary_computation(src, i)))
    IN Detector(d - 1, self.in_loop, after.var_types, after.violations)

\* PythonViolationDetector.visit_While
visit_While(src, i, self) ==
    LET d == self.current_depth + 1
        infinite == IF src[i].kind = "while_true"
                    THEN << Violation("no_infinite_loops", i, "critical", 0) >>
                    ELSE << >>
        nested == IF d >= 3
                  THEN << Violation("excessive_nesting_depth", i, "critical", d) >>
                  ELSE << >>
        after == generic_visit(src, Children(src, i),
                     Detector(d, TRUE, self.var_types,
                              self.violations \o infinite \o nested
                                \o check_io_in_loop(src, i)
                                \o check_unnecessary_computation(src, i)))
    IN Detector(d - 1, self.in_loop, after.var_types, after.violations)

\* PythonViolationDetector.visit_If
visit_If(src, i, self) ==
    LET after == generic_visit(src, Children(src, i),
                     [self EXCEPT !.current_depth = self.current_depth + 1])
    IN [after EXCEPT !.current_depth = self.current_depth]

\* PythonViolationDetector.visit_Assign
visit_Assign(src, i, self) ==
    LET concat == IF /\ self.in_loop
                     /\ src[i].kind = "accum"
                     /\ TypeOf(self.var_types, "n") = "str"
                  THEN << Violation("string_concatenation_in_loop", i, "medium", 0) >>
                  ELSE << >>
        types == CASE src[i].kind = "assign_list" -> Bind(self.var_types, "n", "list")
                   [] src[i].kind = "assign_set" -> Bind(self.var_types, "n", "efficient")
                   [] src[i].kind = "assign_str" -> Bind(self.var_types, "n", "str")
                   [] OTHER -> self.var_types
    IN [self EXCEPT !.violations = self.violations \o concat, !.var_types = types]

\* PythonViolationDetector.visit_AugAssign
visit_AugAssign(src, i, self) ==
    IF self.in_loop /\ TypeOf(self.var_types, "n") = "str"
    THEN [self EXCEPT !.violations =
            Append(self.violations,
                   Violation("string_concatenation_in_loop", i, "medium", 0))]
    ELSE self

\* ast.NodeVisitor.visit: dispatch on the statement
visit(src, i, self) ==
    CASE src[i].kind \in ForStatements -> visit_For(src, i, self)
      [] src[i].kind \in WhileStatements -> visit_While(src, i, self)
      [] src[i].kind = "if" -> visit_If(src, i, self)
      [] src[i].kind \in {"assign_list", "assign_set", "assign_str",
                          "assign_int", "accum"} -> visit_Assign(src, i, self)
      [] src[i].kind = "augaccum" -> visit_AugAssign(src, i, self)
      [] OTHER -> self

\* PythonViolationDetector.detect_all
PythonViolationDetector(src) ==
    generic_visit(src,
                  Ascending({ i \in 1..Len(src) : src[i].indent = 0 }),
                  Detector(0, FALSE, << >>, << >>)).violations

\* JavaScriptASTDetector._run_query: one violation per matching line
run_query(src, kinds, id, sev) ==
    LET lines == Ascending({ i \in 1..Len(src) : src[i].kind \in kinds })
    IN [k \in 1..Len(lines) |-> Violation(id, lines[k], sev, 0)]

\* JavaScriptASTDetector._detect_loops
detect_loops(src) ==
    LET depth(i) == Cardinality({ j \in Ancestors(src, i) :
                                    src[j].kind \in LoopStatements })
        nested == Ascending({ i \in 1..Len(src) :
                                src[i].kind \in LoopStatements /\ depth(i) >= 1 })
    IN run_query(src, {"while_true"}, "no_infinite_loops", "critical")
       \o run_query(src, {"for"}, "inefficient_loop", "major")
       \o [k \in 1..Len(nested) |->
             Violation("no_n2_algorithms", nested[k],
                       IF depth(nested[k]) + 1 >= 3 THEN "critical" ELSE "major",
                       depth(nested[k]) + 1)]

DetectInit ==
    /\ ScanIdle /\ ProfIdle /\ PmIdle /\ EstIdle /\ DistIdle /\ TrkIdle
    /\ \/ /\ det_language = "python"
          /\ \/ IsProgram(NestingStatements)
             \/ IsProgram(LookupStatements)
             \/ IsProgram(AccumulationStatements)
             \/ IsProgram(CallStatements)
       \/ /\ det_language = "javascript"
          /\ IsProgram(NestingStatements)
    /\ det_violations = None

\* detect_violations(content, file_path, language)
DetectViolations ==
    /\ det_violations = None
    /\ source # << >>
    /\ det_violations' = [list |-> IF det_language = "python"
                                    THEN PythonViolationDetector(source)
                                    ELSE detect_loops(source)]
    /\ UNCHANGED << scanVars, profVars, pmVars, estVars, distVars, trkVars, source, det_language >>

SpecDetect == DetectInit /\ [][DetectViolations]_vars

(* ---------------------------------------------------------------------- *)
(* Properties of the structural detectors                                  *)
(* ---------------------------------------------------------------------- *)

Detected == det_violations # None

\* the loop-nesting depth of line i: one plus the number of enclosing loops
LoopDepth(src, i) ==
    1 + Cardinality({ j \in Ancestors(src, i) : src[j].kind \in LoopStatements })

NestingIds == {"no_n2_algorithms", "excessive_nesting_depth"}

NestingFindings(i) ==
    SelectSeq(det_violations.list, LAMBDA v : v.id \in NestingIds /\ v.line = i)

\* C14: every counted (for) loop at loop-nesting depth d >= 2 gets a nesting
\* finding whose message states d, of severity major when d = 2 and critical
\* when d >= 3, and a for loop at depth 1 gets no nesting finding, from the
\* Python and from the JavaScript detector.
C14_NestingFindingStatesDepth ==
    Detected =>
      \A i \in 1..Len(source) :
        source[i].kind = "for" =>
          LET d == LoopDepth(source, i)
          IN IF d = 1 THEN NestingFindings(i) = << >>
             ELSE \E k \in 1..Len(NestingFindings(i)) :
                    /\ NestingFindings(i)[k].depth = d
                    /\ NestingFindings(i)[k].severity =
                         (IF d = 2 THEN "major" ELSE "critical")

InfiniteFindings(i) ==
    SelectSeq(det_violations.list,
              LAMBDA v : v.id = "no_infinite_loops" /\ v.line = i)

\* C15: every while loop whose condition is a constant truthy value (while
\* True, while (true), while 1) yields exactly one unconditional-loop finding
\* at its line, at any nesting depth and among any other loops.
C15_OneFindingPerUnconditionalLoop ==
    Detected =>
      \A i \in 1..Len(source) :
        source[i].kind \in {"while_true", "while_one"} =>
          Len(InfiniteFindings(i)) = 1


AssignStatements == {"assign_list", "assign_set", "assign_str", "assign_int"}

FindingsAt(id, j) ==
    SelectSeq(det_violations.list, LAMBDA v : v.id = id /\ v.line = j)

\* C16: when a sequence of assignments to n is followed by a loop whose body
\* holds the membership test `x in n`, the test gets no inefficient-lookup
\* finding if the last assignment was a set/dict literal, and gets one if the
\* last assignment was a list literal.
C16_LookupFollowsLastAssignment ==
    (Detected /\ det_language = "python") =>
      \A i \in 2..Len(source) :
        (/\ source[i].kind \in LoopStatements
         /\ \A k \in 1..(i - 1) : source[k].kind \in AssignStatements) =>
          \A j \in Descendants(source, i) :
            source[j].kind = "member_test" =>
              /\ source[i - 1].kind = "assign_set" =>
                   FindingsAt("inefficient_lookup", j) = << >>
              /\ source[i - 1].kind = "assign_list" =>
                   FindingsAt("inefficient_lookup", j) # << >>

\* the assignments of a value to n above line j
AssignsBefore(j) == { k \in 1..(j - 1) : source[k].kind \in AssignStatements }

\* C17: inside a loop, `n = n + ...` and `n += ...` are flagged as string
\* accumulation when the latest of the earlier assignments bound n to a
\* string, and are not flagged when it bound n to a number, whatever was
\* assigned to n before that.
C17_AccumulationFollowsBinding ==
    (Detected /\ det_language = "python") =>
      \A j \in 1..Len(source) :
        (/\ source[j].kind \in {"accum", "augaccum"}
         /\ \E l \in Ancestors(source, j) : source[l].kind \in LoopStatements
         /\ AssignsBefore(j) # {}
         /\ \A k \in AssignsBefore(j) : source[k].indent = 0) =>
          LET last == CHOOSE k \in AssignsBefore(j) :
                        \A h \in AssignsBefore(j) : h <= k
          IN /\ source[last].kind = "assign_str" =>
                  FindingsAt("string_concatenation_in_loop", j) # << >>
             /\ source[last].kind = "assign_int" =>
                  FindingsAt("string_concatenation_in_loop", j) = << >>


(* ---------------------------------------------------------------------- *)
(* Analyzer: the emission estimate                                         *)
(* ---------------------------------------------------------------------- *)

\* Emissions are exact integers: one unit is 1e-8 / (ScoreScale * 100) kg
\* before calibration, and the coefficient is a number of tenths, so a
\* calibrated value counts units of 1e-8 / (ScoreScale * 100 * 10) kg.
\* ScoreScale makes every quotient of the source a whole number of units.
ScoreScale == 5000

EmissionUnit == ScoreScale * 100

\* calibration coefficients: -1.0, 0.0, 0.3, 1.0 and 2.5
Coefficients == {-10, 0, 3, 10, 25}

\* how many times each of the four metrics is raised
MaxGrow == 3

Min(a, b) == IF a <= b THEN a ELSE b

Max(a, b) == IF a >= b THEN a ELSE b

ComplexityMetrics(loc, cc, depth, entities, recursive, mem, loops, io, expensive) ==
    [lines_of_code |-> loc, cyclomatic_complexity |-> cc,
     max_nesting_depth |-> depth, entity_count |-> entities,
     recursive_functions |-> recursive, memory_usage_estimate |-> mem,
     loop_iterations_estimate |-> loops, has_io_operations |-> io,
     has_expensive_operations |-> expensive]

\* ComplexityMetrics.calculate_complexity_score, times ScoreScale
calculate_complexity_score(m) ==
    Min(100 * ScoreScale,
        Min(20 * ScoreScale, m.lines_of_code * ((20 * ScoreScale) \div 1000))
        + Min(25 * ScoreScale, m.cyclomatic_complexity * ((25 * ScoreScale) \div 50))
        + Min(15 * ScoreScale, m.max_nesting_depth * ((15 * ScoreScale) \div 10))
        + Min(20 * ScoreScale,
              m.loop_iterations_estimate * ((20 * ScoreScale) \div 100000))
        + Min(10 * ScoreScale, m.entity_count * ((10 * ScoreScale) \div 100))
        + (IF m.has_io_operations THEN 5 * ScoreScale ELSE 0)
        + (IF m.has_expensive_operations THEN 5 * ScoreScale ELSE 0)
        + (IF m.recursive_functions > 0
           THEN Min(10 * ScoreScale, m.recursive_functions * 2 * ScoreScale)
           ELSE 0))

\* the minimum threshold 0.00000001
MinimumThreshold == EmissionUnit * CoefficientDen

\* estimate_emissions returning the calibrated sum without the threshold
estimate_emissionsUnclamped(m, coefficient) ==
    LET emissions ==
          m.lines_of_code * ((10 * EmissionUnit) \div 1000)
          + calculate_complexity_score(m)
          + m.loop_iterations_estimate * (EmissionUnit \div 100000)
          + (IF m.has_io_operations THEN 10 * EmissionUnit ELSE 0)
          + m.memory_usage_estimate * (EmissionUnit \div 100)
          + m.recursive_functions * EmissionUnit
          + (IF m.has_expensive_operations THEN EmissionUnit ELSE 0)
    IN emissions * coefficient

\* EmissionAnalyzer.estimate_emissions
estimate_emissions(m, coefficient) ==
    LET emissions ==
          m.lines_of_code * ((10 * EmissionUnit) \div 1000)
          + calculate_complexity_score(m)
          + m.loop_iterations_estimate * (EmissionUnit \div 100000)
          + (IF m.has_io_operations THEN 10 * EmissionUnit ELSE 0)
          + m.memory_usage_estimate * (EmissionUnit \div 100)
          + m.recursive_functions * EmissionUnit
          + (IF m.has_expensive_operations THEN EmissionUnit ELSE 0)
    IN Max(emissions * coefficient, MinimumThreshold)

\* the metrics of a small file: the four metrics that grow start lowest
BaseMetrics ==
    { ComplexityMetrics(0, 0, depth, entities, recursive, 10, 0, io, expensive) :
        depth \in {0, 12}, entities \in {0, 40}, recursive \in {0, 2},
        io \in BOOLEAN, expensive \in {FALSE} }

\* the value the four growing metrics have in BaseMetrics
LowestMetric ==
    [lines_of_code |-> 0, cyclomatic_complexity |-> 0,
     loop_iterations_estimate |-> 0, memory_usage_estimate |-> 10]

\* the amount one Grow adds to a metric
GrowStep ==
    [lines_of_code |-> 400, cyclomatic_complexity |-> 20,
     loop_iterations_estimate |-> 40000, memory_usage_estimate |-> 50]

EstimateInit ==
    /\ ScanIdle /\ ProfIdle /\ PmIdle /\ DetIdle /\ DistIdle /\ TrkIdle
    /\ est_metrics \in BaseMetrics
    /\ calibration_coefficient \in Coefficients
    /\ est_emissions = estimate_emissions(est_metrics, calibration_coefficient)

\* the same analyzer estimates a file whose metric `field` is larger
Grow(field) ==
    /\ est_metrics # None
    /\ est_metrics[field] < LowestMetric[field] + MaxGrow * GrowStep[field]
    /\ est_metrics' = [est_metrics EXCEPT ![field] = @ + GrowStep[field]]
    /\ est_emissions' = estimate_emissions(est_metrics', calibration_coefficient)
    /\ UNCHANGED << scanVars, profVars, pmVars, detVars, distVars, trkVars, calibration_coefficient >>

EstimateNext == \E field \in DOMAIN GrowStep : Grow(field)

SpecEstimate == EstimateInit /\ [][EstimateNext]_vars


\* C18: estimate_emissions does not decrease when line count, cyclomatic
\* complexity, loop-iteration estimate or memory estimate grows while the
\* other metrics and the calibration coefficient stay fixed, and every value
\* it returns is strictly greater than 0.
C18_EstimateMonotonePositive ==
    [][est_metrics' # est_metrics =>
         /\ est_emissions > 0
         /\ est_emissions' > 0
         /\ est_emissions' >= est_emissions]_vars

\* every growing metric was raised past its cap and the estimate is above
\* the minimum threshold
C18_Witness ==
    /\ est_metrics # None
    /\ est_metrics.lines_of_code > 1000
    /\ est_metrics.cyclomatic_complexity > 50
    /\ est_metrics.loop_iterations_estimate > 100000
    /\ est_metrics.memory_usage_estimate > 100
    /\ est_emissions > MinimumThreshold


(* ---------------------------------------------------------------------- *)
(* Analyzer: one redistribution on its own                                 *)
(* ---------------------------------------------------------------------- *)

MaxIssues == 3

\* the severities rules and detectors give to findings
Severities == {"critical", "high", "major", "medium", "minor", "low", "info"}

\* the files findings come from
FindingFiles == {1, 2}

\* total emissions, in emission units
Totals == {0, 1, 6}

Finding(sev, file) ==
    [id |-> "inefficient_lookup", type |-> "green_violation", severity |-> sev,
     file |-> file]

DistributeInit ==
    /\ ScanIdle /\ ProfIdle /\ PmIdle /\ DetIdle /\ EstIdle /\ TrkIdle
    /\ dist_issues \in UNION { [1..n -> { Finding(sev, file) : sev \in Severities,
                                                            file \in FindingFiles }]
                               : n \in 0..MaxIssues }
    /\ dist_total \in Totals
    /\ dist_result = None

\* get_per_line_emissions(issues, total_emissions)
Distribute ==
    /\ pc = "idle"
    /\ dist_result = None
    /\ dist_result' = [list |-> get_per_line_emissions(dist_issues, dist_total)]
    /\ UNCHANGED << scanVars, profVars, pmVars, detVars, estVars, trkVars, dist_issues, dist_total >>

SpecDistribute == DistributeInit /\ [][Distribute]_vars

\* C19: with a total of 0 the redistribution returns every finding with a
\* share of 0, whatever the findings are, and with no findings it returns an
\* empty list, whatever the total is.
C19_ZeroTotalOrNoFindings ==
    dist_result # None =>
      /\ dist_total = 0 =>
           /\ Len(dist_result.list) = Len(dist_issues)
           /\ \A n \in 1..Len(dist_issues) :
                /\ Strip(dist_result.list[n]) = Strip(dist_issues[n])
                /\ dist_result.list[n].codebase_emissions[1] = 0
      /\ dist_issues = << >> => dist_result.list = << >>

\* findings of different severities redistributed against a total of 0
C19_Witness ==
    /\ dist_result # None
    /\ dist_total = 0
    /\ \E a \in 1..Len(dist_issues) : \E b \in 1..Len(dist_issues) :
         dist_issues[a].severity # dist_issues[b].severity

\* the weights the table names
TableWeight(sev) ==
    CASE sev = "high" -> 3
      [] sev = "medium" -> 2
      [] sev = "low" -> 1

TableSeverities == {"high", "medium", "low"}

\* the numerators of the shares, which all have the denominator of the first
ShareNumerators ==
    [n \in 1..Len(dist_result.list) |-> dist_result.list[n].codebase_emissions[1]]

SeverityRank(sev) ==
    CASE sev = "critical" -> 7
      [] sev = "high" -> 6
      [] sev = "major" -> 5
      [] sev = "medium" -> 4
      [] sev = "minor" -> 3
      [] sev = "low" -> 2
      [] sev = "info" -> 1

\* C29: within one redistribution of a total greater than 0 a finding of a
\* more severe level never gets a smaller share than a finding of a less
\* severe level, under critical > high > major > medium > minor > low > info.
C29_MoreSevereNeverSmaller ==
    (dist_result # None /\ dist_total > 0) =>
      \A a \in 1..Len(dist_issues) : \A b \in 1..Len(dist_issues) :
         SeverityRank(dist_issues[a].severity) > SeverityRank(dist_issues[b].severity) =>
            dist_result.list[a].codebase_emissions[1] * dist_result.list[b].codebase_emissions[2]
              >= dist_result.list[b].codebase_emissions[1] * dist_result.list[a].codebase_emissions[2]


(* ---------------------------------------------------------------------- *)
(* Tracking: the no-op tracker                                             *)
(* ---------------------------------------------------------------------- *)

\* the latest reading of the clock and the number of calls followed
MaxClock == 4

MaxCalls == 4

Some(x) == [value |-> x]

\* NoOpTracker.stop reporting the elapsed time as its emissions
stopElapsedAsEmissions(started, t) ==
    LET elapsed == IF started # None THEN t - started.value ELSE 0
    IN [emissions |-> elapsed, cpu |-> 0, memory |-> 0,
        duration_seconds |-> elapsed, tracking_enabled |-> FALSE]

\* NoOpTracker.stop
stop(started, t) ==
    LET elapsed == IF started # None THEN t - started.value ELSE 0
    IN [emissions |-> 0, cpu |-> 0, memory |-> 0,
        duration_seconds |-> elapsed, tracking_enabled |-> FALSE]

\* scan's `tracking_result.get('emissions', 0.0)`
ScanningEmissions(tracking) == tracking.emissions

\* create_tracker(enable_profiling=False): a NoOpTracker
TrackerInit ==
    /\ ScanIdle /\ ProfIdle /\ PmIdle /\ DetIdle /\ EstIdle /\ DistIdle
    /\ now = 1
    /\ start_time = None
    /\ tracking_result = None
    /\ calls = << >>

\* NoOpTracker.start
TrackerStart ==
    /\ pc = "idle"
    /\ Len(calls) < MaxCalls
    /\ start_time' = Some(now)
    /\ calls' = Append(calls, "start")
    /\ UNCHANGED << scanVars, profVars, pmVars, detVars, estVars, distVars, now, tracking_result >>

\* NoOpTracker.stop
TrackerStop ==
    /\ pc = "idle"
    /\ Len(calls) < MaxCalls
    /\ tracking_result' = stop(start_time, now)
    /\ calls' = Append(calls, "stop")
    /\ UNCHANGED << scanVars, profVars, pmVars, detVars, estVars, distVars, now, start_time >>

\* time passes between two calls
Tick ==
    /\ pc = "idle"
    /\ now < MaxClock
    /\ now' = now + 1
    /\ UNCHANGED << scanVars, profVars, pmVars, detVars, estVars, distVars, start_time,
                    tracking_result, calls >>

TrackerNext == TrackerStart \/ TrackerStop \/ Tick

SpecTracker == TrackerInit /\ [][TrackerNext]_vars

\* C20: after any sequence of start and stop calls, a stop with no start
\* before it included, what the no-op tracker's stop returned reports zero
\* emissions, cpu and memory with tracking disabled, so the scanning
\* emissions a scan takes from it are 0.
C20_NoOpTrackerReportsZero ==
    tracking_result # None =>
      /\ tracking_result.emissions = 0
      /\ tracking_result.cpu = 0
      /\ tracking_result.memory = 0
      /\ tracking_result.tracking_enabled = FALSE
      /\ ScanningEmissions(tracking_result) = 0

\* a stop with no start before it, then a start and, some time later, a stop
C20_Witness ==
    /\ calls = << "stop", "start", "stop" >>
    /\ tracking_result # None
    /\ tracking_result.duration_seconds > 0


(* ---------------------------------------------------------------------- *)
(* Tracking: the profiling tracker                                         *)
(* ---------------------------------------------------------------------- *)

\* codecarbon is "missing" when its import raises ImportError, "broken" when
\* the import works and the EmissionsTracker constructor raises, "present"
\* when both work
Facilities == {"missing", "broken", "present"}

\* what EmissionsTracker.stop() returns: None or an amount of emissions
Readings == {None, Some(5)}

\* what process.cpu_percent() and memory_info() give
Samples == {0, 3}

ProfilingInit ==
    /\ ScanIdle /\ DetIdle /\ EstIdle /\ DistIdle /\ TrkIdle /\ PmIdle
    /\ codecarbon \in Facilities
    /\ psutil \in BOOLEAN
    /\ prof_tracker = None
    /\ prof_result = None
    /\ prof_raised = "none"
    /\ prof_calls = << >>

\* ProfilingTracker.__init__: only ImportError is handled
ProfilingTracker_init ==
    /\ pc = "idle"
    /\ prof_tracker = None
    /\ prof_raised = "none"
    /\ prof_calls' = Append(prof_calls, "__init__")
    /\ CASE codecarbon = "missing" ->
              /\ prof_tracker' = [enabled |-> FALSE, codecarbon_avail |-> FALSE,
                                  start_time |-> None]
              /\ UNCHANGED prof_raised
         [] codecarbon = "broken" ->
              /\ prof_raised' = "__init__"
              /\ UNCHANGED prof_tracker
         [] OTHER ->
              /\ prof_tracker' = [enabled |-> TRUE, codecarbon_avail |-> TRUE,
                                  start_time |-> None]
              /\ UNCHANGED prof_raised
    /\ UNCHANGED << scanVars, detVars, estVars, distVars, trkVars, pmVars,
                    codecarbon, psutil, prof_result >>

\* ProfilingTracker.start
ProfilingTracker_start ==
    /\ pc = "idle"
    /\ prof_tracker # None
    /\ Len(prof_calls) < MaxCalls
    /\ prof_tracker' = [prof_tracker EXCEPT !.start_time = Some(1)]
    /\ prof_calls' = Append(prof_calls, "start")
    /\ UNCHANGED << scanVars, detVars, estVars, distVars, trkVars, pmVars,
                    codecarbon, psutil, prof_result, prof_raised >>

\* the dict ProfilingTracker.stop returns
ProfilingResult(emissions, cpu, memory) ==
    [emissions |-> emissions, cpu |-> cpu, memory |-> memory,
     tracking_enabled |-> TRUE]

\* ProfilingTracker.stop
ProfilingTracker_stop ==
    /\ pc = "idle"
    /\ prof_tracker # None
    /\ Len(prof_calls) < MaxCalls
    /\ \E reading \in Readings : \E cpu \in Samples : \E memory \in Samples :
          prof_result' =
             ProfilingResult(
                IF prof_tracker.enabled /\ prof_tracker.codecarbon_avail
                THEN (IF reading = None THEN 0 ELSE reading.value)
                ELSE 0,
                IF psutil THEN cpu ELSE 0,
                IF psutil THEN memory ELSE 0)
    /\ prof_calls' = Append(prof_calls, "stop")
    /\ UNCHANGED << scanVars, detVars, estVars, distVars, trkVars, pmVars,
                    codecarbon, psutil, prof_tracker, prof_raised >>

ProfilingNext ==
    \/ ProfilingTracker_init
    \/ ProfilingTracker_start
    \/ ProfilingTracker_stop

SpecProfiling == ProfilingInit /\ [][ProfilingNext]_vars

\* C21: when codecarbon cannot be imported, constructing, starting and
\* stopping the profiling tracker never raises, and what stop returns has
\* emissions 0 and still carries a duration, a cpu and a memory reading.
C21_ProfilingDegradesGracefully ==
    codecarbon = "missing" =>
      /\ prof_raised = "none"
      /\ prof_result # None =>
           /\ prof_result.emissions = 0
           /\ {"duration_seconds", "cpu", "memory"} \subseteq DOMAIN prof_result


(* ---------------------------------------------------------------------- *)
(* ProjectManager: the project registry                                    *)
(* ---------------------------------------------------------------------- *)

\* the number of ids uuid4 hands out and of scans recorded per project
MaxProjects == 3

MaxScans == 1

\* str(uuid.uuid4()), in the order of the calls
Ids == [n \in 1..MaxProjects |-> n]

\* names a caller may pass; project_id_or_name arguments are names or ids
ProjectNames == {"alpha", "beta"}

Project(name, is_system) ==
    [name |-> name, is_system |-> is_system, scan_count |-> 0]

\* a call, whether it raised ProjectException and the registry it found
Call(op, arg, raised) ==
    [op |-> op, arg |-> arg, raised |-> raised, before |-> projects]

\* ProjectManager.get_project by id: the key of the project, None if absent
get_project_by_id(id) == IF id \in DOMAIN projects THEN Some(id) ELSE None

\* ProjectManager.get_project by name: the first project of that name in the
\* order of insertion, None if absent
get_project_by_name(name) ==
    LET named == { id \in DOMAIN projects : projects[id].name = name }
    IN IF named = {} THEN None
       ELSE Some(CHOOSE id \in named : \A other \in named : id <= other)

ProjectsInit ==
    /\ ScanIdle /\ DetIdle /\ EstIdle /\ DistIdle /\ TrkIdle /\ ProfIdle
    /\ projects = << >>
    /\ next_id = 0
    /\ pm_last = None

\* add_project without the check for duplicate names
add_projectNoDuplicateCheck(name, is_system, saved) ==
    /\ pc = "idle"
    /\ next_id < MaxProjects
    /\ projects' = [id \in DOMAIN projects \cup {Ids[next_id + 1]} |->
                      IF id = Ids[next_id + 1] THEN Project(name, is_system)
                      ELSE projects[id]]
    /\ next_id' = next_id + 1
    /\ pm_last' = Call("add_project", name, ~saved)
    /\ UNCHANGED << scanVars, detVars, estVars, distVars, trkVars, profVars >>

\* ProjectManager.add_project; `saved` tells whether _save_projects could
\* write the registry file (it raises ProjectException otherwise)
add_project(name, is_system, saved) ==
    /\ pc = "idle"
    /\ next_id < MaxProjects
    /\ IF \E id \in DOMAIN projects : projects[id].name = name
       THEN /\ pm_last' = Call("add_project", name, TRUE)
            /\ UNCHANGED << projects, next_id >>
       ELSE /\ projects' = [id \in DOMAIN projects \cup {Ids[next_id + 1]} |->
                              IF id = Ids[next_id + 1] THEN Project(name, is_system)
                              ELSE projects[id]]
            /\ next_id' = next_id + 1
            /\ pm_last' = Call("add_project", name, ~saved)
    /\ UNCHANGED << scanVars, detVars, estVars, distVars, trkVars, profVars >>

\* ProjectManager.remove_project for what get_project found
remove_project(arg, project, saved) ==
    /\ pc = "idle"
    /\ IF project = None
       THEN /\ pm_last' = Call("remove_project", arg, TRUE)
            /\ UNCHANGED projects
       ELSE IF projects[project.value].is_system
       THEN /\ pm_last' = Call("remove_project", arg, TRUE)
            /\ UNCHANGED projects
       ELSE /\ projects' = [id \in DOMAIN projects \ {project.value} |-> projects[id]]
            /\ pm_last' = Call("remove_project", arg, ~saved)
    /\ UNCHANGED << scanVars, detVars, estVars, distVars, trkVars, profVars,
                    next_id >>

\* ProjectManager.update_project_scan for what get_project found
update_project_scan(arg, project, saved) ==
    /\ pc = "idle"
    /\ IF project = None
       THEN /\ pm_last' = Call("update_project_scan", arg, TRUE)
            /\ UNCHANGED projects
       ELSE /\ projects[project.value].scan_count < MaxScans
            /\ projects' = [projects EXCEPT ![project.value].scan_count = @ + 1]
            /\ pm_last' = Call("update_project_scan", arg, ~saved)
    /\ UNCHANGED << scanVars, detVars, estVars, distVars, trkVars, profVars,
                    next_id >>

ProjectsNext ==
    \/ \E name \in ProjectNames : \E is_system \in BOOLEAN : \E saved \in BOOLEAN :
          add_project(name, is_system, saved)
    \/ \E name \in ProjectNames : \E saved \in BOOLEAN :
          remove_project(name, get_project_by_name(name), saved)
    \/ \E id \in 1..MaxProjects : \E saved \in BOOLEAN :
          remove_project(id, get_project_by_id(id), saved)
    \/ \E name \in ProjectNames : \E saved \in BOOLEAN :
          update_project_scan(name, get_project_by_name(name), saved)
    \/ \E id \in 1..MaxProjects : \E saved \in BOOLEAN :
          update_project_scan(id, get_project_by_id(id), saved)

SpecProjects == ProjectsInit /\ [][ProjectsNext]_vars

\* the registered projects that bear the name
Named(registry, name) == { id \in DOMAIN registry : registry[id].name = name }

\* C22: after any add_project, remove_project and update_project_scan calls
\* no two registered projects share a name, and an add_project with a name
\* that is registered raises ProjectException and leaves the registry as it
\* was.
C22_ProjectNamesUnique ==
    /\ \A a \in DOMAIN projects : \A b \in DOMAIN projects :
          a # b => projects[a].name # projects[b].name
    /\ (/\ pm_last # None
        /\ pm_last.op = "add_project"
        /\ Named(pm_last.before, pm_last.arg) # {}) =>
          /\ pm_last.raised
          /\ projects = pm_last.before

\* a second project was refused the name of a registered one
C22_Witness ==
    /\ pm_last # None
    /\ pm_last.op = "add_project"
    /\ Named(pm_last.before, pm_last.arg) # {}
    /\ pm_last.raised
    /\ Cardinality(DOMAIN projects) >= 2


(* ---------------------------------------------------------------------- *)
(* Scanner: calibration of the recorded estimates                          *)
(* ---------------------------------------------------------------------- *)

\* C24: the per-file estimates a scan records, and hence its total, are the
\* estimates under the coefficient 1 multiplied by the calibration
\* coefficient the scanner was given.
C24_EstimatesCalibrated ==
    Returned =>
      /\ \A f \in DOMAIN result.per_file_emissions :
            result.per_file_emissions[f] * CoefficientDen
              = FileEstimate(fs[f], calibration_coefficient)
      /\ result.codebase_emissions * CoefficientDen
           = SumOver(DOMAIN result.per_file_emissions,
                     [f \in DOMAIN result.per_file_emissions |->
                        FileEstimate(fs[f], calibration_coefficient)])


\* C25: a scan with profiling off, one that asks for runtime execution
\* monitoring included, creates only no-op trackers.
C25_OnlyNoOpTrackersWithoutOptIn ==
    ~profile => \A n \in 1..Len(trackers) : trackers[n] = "NoOpTracker"


(* ---------------------------------------------------------------------- *)
(* Scanner: the total and the per-file map                                 *)
(* ---------------------------------------------------------------------- *)

\* C30: in every result a scan returns the codebase emission value is the sum
\* of the values of the per-file emission map, in whatever order the workers
\* complete and whichever of them fail.
C30_TotalIsSumOfPerFile ==
    Returned =>
      result.codebase_emissions
        = SumOver(DOMAIN result.per_file_emissions, result.per_file_emissions)

\* a returned scan with two estimates in its map and a worker that failed
C30_Witness ==
    /\ Returned
    /\ Cardinality(DOMAIN result.per_file_emissions) >= 2
    /\ \E f \in DOMAIN returned : returned[f].raised
    /\ result.codebase_emissions > 0


(* ---------------------------------------------------------------------- *)
(* Properties of the loop-body scan                                        *)
(* ---------------------------------------------------------------------- *)

LoopBodyIds == {"io_in_loop", "unnecessary_computation"}

\* the lines of the loops that hold a call in their header
HeaderCallLines ==
    { i \in 1..Len(source) :
        source[i].kind \in LoopStatements /\ CallOf(source[i]) # "none" }

\* C26: the loop-body scan flags only calls inside a loop's body: a call in
\* a loop header (the iterable of `for i in range(n)`, a while condition)
\* that no loop encloses gets no io_in_loop and no unnecessary_computation
\* finding.
C26_HeaderCallsNotFlagged ==
    (Detected /\ det_language = "python") =>
      \A i \in HeaderCallLines :
        LoopDepth(source, i) = 1 =>
          \A k \in 1..Len(det_violations.list) :
            ~(det_violations.list[k].id \in LoopBodyIds
              /\ det_violations.list[k].line = i)

\* C27: the depth a nesting finding reports for a loop is one plus the number
\* of loops that enclose it, whatever conditionals stand around or between
\* the loops, and a for loop that no loop encloses gets no nesting finding.
C27_DepthCountsLoopsOnly ==
    Detected =>
      \A i \in 1..Len(source) :
        source[i].kind \in LoopStatements =>
          /\ \A k \in 1..Len(NestingFindings(i)) :
                NestingFindings(i)[k].depth = LoopDepth(source, i)
          /\ LoopDepth(source, i) = 1 => NestingFindings(i) = << >>

\* C28: each call of an I/O primitive in the body of a loop yields exactly
\* one io_in_loop finding, however many loops enclose the call.
C28_OneFindingPerIoCall ==
    (Detected /\ det_language = "python") =>
      \A j \in 1..Len(source) :
        (/\ source[j].kind = "call_open"
         /\ \E i \in Ancestors(source, j) : source[i].kind \in LoopStatements) =>
          Len(FindingsAt("io_in_loop", j)) = 1

====
